---- MODULE Spec2Model ----
(***************************************************************************)
(* litehook: the listener supervisor (src/src/lib.rs), the listener worker *)
(* (src/src/listener.rs), the listener configuration (src/src/config.rs),  *)
(* the SQLite store (src/src/db.rs) and the row conversions                *)
(* (src/src/model.rs).                                                     *)
(*                                                                         *)
(* Option<T> is modelled as a sequence: <<>> is None, <<v>> is Some(v).    *)
(* A channel url is the pair <<prefix, handle>> of the text it is the      *)
(* concatenation of.                                                       *)
(***************************************************************************)
EXTENDS Integers, Sequences, FiniteSets, TLC

\* ------------------------------------------------------------------ bounds

\* control-plane calls (add, remove, update, update_global, stop) one run makes
MaxCalls == 2
\* capacity of the command mailbox in the model (mpsc::channel(100) in the code)
MailboxCap == 2

\* ------------------------------------------------------- program constants

\* send_webhook_retry(.., 5)
MaxRetries == 5
\* default_interval()
DefaultInterval == 600
\* validate: poll_interval <= 2 is rejected
MinRejected == 2

\* ------------------------------------------------------------------- values

None == <<>>
Some(v) == <<v>>
unwrap_or(o, d) == IF o = None THEN d ELSE o[1]

Ids == {"a", "b"}

TmePrefix == "https://t.me/s/"
GoodChannel == <<TmePrefix, "news">>
BadChannel == <<"http://example.com/", "news">>

\* str::starts_with on the concatenation url[1] ++ url[2], for the prefixes used
starts_with(url, prefix) == url[1] = prefix

U1 == "https://w1/"
U2 == "https://w2/"
\* Url::parse: the empty string is no URL (RelativeUrlWithoutBase)
UrlParses(u) == u \in {U1, U2}

S1 == "s1"
S2 == "s2"

\* ----------------------------------------------------------------- config.rs

\* a field that is None or Some("")
IsUnset(o) == o = None \/ o = Some("")

merge_with(c, g) ==
    [c EXCEPT
        !.proxy_list_url = IF IsUnset(c.proxy_list_url) THEN g.proxy_list_url ELSE @,
        !.webhook_secret = IF IsUnset(c.webhook_secret) THEN g.webhook_secret ELSE @,
        !.poll_interval  = IF c.poll_interval = None THEN g.poll_interval ELSE @,
        !.webhook_url    = IF IsUnset(c.webhook_url) THEN g.webhook_url ELSE @]

validate(c) ==
    /\ starts_with(c.channel_url, TmePrefix)
    /\ c.webhook_url # None
    /\ UrlParses(c.webhook_url[1])
    /\ ~(unwrap_or(c.poll_interval, DefaultInterval) <= MinRejected)

\* ------------------------------------------------------------------ model.rs

\* impl From<ListenerConfig> for ListenerRow: the two expect() calls panic
RowPanics(c) == c.poll_interval = None \/ c.webhook_url = None

RowFromConfig(c) ==
    [id |-> c.id, active |-> TRUE, poll_interval |-> c.poll_interval[1],
     channel_url |-> c.channel_url, proxy_list_url |-> c.proxy_list_url,
     webhook_url |-> c.webhook_url[1]]

\* impl From<ListenerRow> for ListenerConfig
ConfigFromRow(r) ==
    [id |-> r.id, poll_interval |-> Some(r.poll_interval),
     channel_url |-> r.channel_url, proxy_list_url |-> r.proxy_list_url,
     webhook_url |-> Some(r.webhook_url), webhook_secret |-> None]

\* --------------------------------------------------------------------- posts

PostIds == {"p1", "p2", "p3"}

\* what the extractor yields for a post block: p1 has every optional element,
\* p2 has no author element (parse_post leaves the field None)
PostOf(id) ==
    [id |-> id,
     author |-> IF id = "p2" THEN None ELSE Some("Author"),
     text |-> Some("text"),
     media |-> None,
     reactions |-> Some(<<[emoji |-> Some("+"), count |-> Some("5")]>>),
     views |-> Some("1.5K"),
     date |-> Some("2026-02-14")]

\* sqlx::types::Json<T>: the serde_json text of the value
ToJson(o) == IF o = None THEN <<"null">> ELSE <<"json", o[1]>>
FromJson(j) == IF j[1] = "null" THEN None ELSE Some(j[2])

\* the row INSERT OR REPLACE writes: Option<String> binds NULL (None) or TEXT
PostRowOf(p) ==
    [id |-> p.id, author |-> p.author, text |-> p.text, media |-> ToJson(p.media),
     reactions |-> ToJson(p.reactions), views |-> p.views, date |-> p.date]

\* PostRow (FromRow): author, text, views and date are String, which does not
\* decode a NULL column
RowDecodes(r) == r.author # None /\ r.text # None /\ r.views # None /\ r.date # None

\* impl From<PostRow> for Post
PostFromRow(r) ==
    [id |-> r.id, author |-> Some(r.author[1]), text |-> Some(r.text[1]),
     media |-> FromJson(r.media), reactions |-> FromJson(r.reactions),
     views |-> Some(r.views[1]), date |-> Some(r.date[1])]

\* Db::get_posts on a posts table t: Ok(None), Ok(Some(post)) or Err
get_posts(t, id) ==
    IF t[id] = None THEN [tag |-> "none", post |-> None]
    ELSE IF RowDecodes(t[id][1]) THEN [tag |-> "some", post |-> Some(PostFromRow(t[id][1]))]
    ELSE [tag |-> "err", post |-> None]

\* an insert that keeps the row an id already has (INSERT OR IGNORE)
insert_or_ignore(t, p) == IF t[p.id] = None THEN [t EXCEPT ![p.id] = Some(PostRowOf(p))] ELSE t

\* an insert_post that reports Ok and writes nothing
insert_nothing(t, p) == t

\* Db::insert_post
insert_post(t, p) == [t EXCEPT ![p.id] = Some(PostRowOf(p))]

\* Db::insert_listener / Db::delete_listener on a listeners table t
insert_listener(t, row) == [t EXCEPT ![row.id] = Some(row)]
delete_listener(t, id) == [t EXCEPT ![id] = None]

\* the pages fetch_html + parse_page can yield for a channel url (post ids in
\* document order); any other outcome is an error or an unrecognizable page
Pages(url) ==
    IF url = GoodChannel THEN {<<>>, <<"p1">>, <<"p1", "p2">>} ELSE {}

\* ------------------------------------------------------------------- inputs

Cfg(id, pi, ch, px, wh, sec) ==
    [id |-> id, poll_interval |-> pi, channel_url |-> ch, proxy_list_url |-> px,
     webhook_url |-> wh, webhook_secret |-> sec]

Glob(pi, wh, sec, px) ==
    [poll_interval |-> pi, webhook_url |-> wh, webhook_secret |-> sec,
     proxy_list_url |-> px]

PX == "https://proxies/"

G1 == Glob(Some(DefaultInterval), Some(U1), Some(S1), None)
G2 == Glob(Some(DefaultInterval), Some(U2), Some(S2), None)
GNone == Glob(Some(DefaultInterval), None, None, None)

CfgOk(id) == Cfg(id, Some(5), GoodChannel, None, Some(U1), Some(S1))
CfgInherit(id) == Cfg(id, Some(5), GoodChannel, None, Some(""), None)
CfgBadChannel(id) == Cfg(id, Some(5), BadChannel, None, Some(U1), None)
CfgLowInterval(id) == Cfg(id, Some(2), GoodChannel, None, Some(U1), None)
CfgNoInterval(id) == Cfg(id, None, GoodChannel, None, Some(U1), None)
CfgProxy(id) == Cfg(id, Some(5), GoodChannel, Some(PX), Some(U1), Some(S1))
CfgOther(id) == Cfg(id, Some(7), GoodChannel, None, Some(U2), Some(S2))

\* a config record that only carries an id (the argument of Remove)
IdOnly(id) == Cfg(id, None, GoodChannel, None, None, None)

\* -------------------------------------------------------------------- state

VARIABLES
    shutdown,      \* Server.shutdown: the token has been cancelled
    listeners,     \* Server.listeners: id -> worker object, 0 when the key is absent
    db_listeners,  \* table listeners: id -> Option<ListenerRow>
    db_posts,      \* table posts: id -> Option<row>
    mailbox,       \* the mpsc channel behind cmd_tx / cmd_rx
    cfg_tx,        \* the value of the watch channel
    sup_pc,        \* where Server::run is
    sup_todo,      \* restore: the rows of get_all_listeners() still to add
    sup_cfg,       \* restore / spawn_listener: the config in hand
    calls,         \* control-plane calls suspended at an await
    ncalls,        \* control-plane calls made so far
    workers,       \* the worker objects and their run() tasks (raw, res: history)
    nworkers,      \* worker objects created so far
    sent           \* per post id: send_webhook_retry calls whose new_posts held it

vars == <<shutdown, listeners, db_listeners, db_posts, mailbox, cfg_tx, sup_pc,
          sup_todo, sup_cfg, calls, ncalls, workers, nworkers, sent>>

\* every worker object comes from one Add: a restored row or an add_listener call
Workers == 1..(MaxCalls + 1)

\* positions of Listener::run at which the task is suspended in select!
Awaiting == {"fetch", "get", "insert", "send", "sleep"}
\* run() has not ended: the task holds its watch::Receiver
Running == Awaiting \cup {"reconf"}

Unused ==
    [cfg |-> IdOnly("a"), raw |-> IdOnly("a"), token |-> FALSE, pc |-> "unused",
     changed |-> FALSE, url |-> GoodChannel, page |-> <<>>, new_posts |-> <<>>,
     att |-> 0, hook |-> "", snap |-> IdOnly("a"), res |-> None]

Add(c) == [type |-> "Add", cfg |-> c]
Remove(id) == [type |-> "Remove", cfg |-> IdOnly(id)]

Call(op, c, w, g) == [op |-> op, cfg |-> c, w |-> w, g |-> g]

InitTables ==
    {[i \in Ids |-> None],
     [i \in Ids |-> IF i = "a" THEN Some(RowFromConfig(CfgOk("a"))) ELSE None]}

\* Server::new
Init ==
    /\ shutdown = FALSE
    /\ listeners = [i \in Ids |-> 0]
    /\ db_listeners \in InitTables
    /\ db_posts = [p \in PostIds |-> None]
    /\ mailbox = <<>>
    /\ cfg_tx \in {G1, GNone}
    /\ sup_pc = "start"
    /\ sup_todo = {}
    /\ sup_cfg = None
    /\ calls = {}
    /\ ncalls = 0
    /\ workers = [w \in Workers |-> Unused]
    /\ nworkers = 0
    /\ sent = [p \in PostIds |-> 0]

\* ------------------------------------------------------------ control plane

CanCall == ncalls < MaxCalls

\* Server::add_listener up to the send: the row conversion, then insert_listener
add_listener(c) ==
    /\ CanCall
    /\ ncalls' = ncalls + 1
    /\ IF RowPanics(c)
       THEN UNCHANGED <<db_listeners, calls>>
       ELSE /\ db_listeners' = insert_listener(db_listeners, RowFromConfig(c))
            /\ calls' = calls \cup {Call("add_send", c, 0, G1)}
    /\ UNCHANGED <<shutdown, listeners, db_posts, mailbox, cfg_tx, sup_pc, sup_todo,
                   sup_cfg, workers, nworkers, sent>>

\* Server::add_listener: cmd_tx.send(Add(cfg)) completes once the mailbox has room
add_send(k) ==
    /\ k \in calls /\ k.op = "add_send"
    /\ Len(mailbox) < MailboxCap
    /\ mailbox' = Append(mailbox, Add(k.cfg))
    /\ calls' = calls \ {k}
    /\ UNCHANGED <<shutdown, listeners, db_listeners, db_posts, cfg_tx, sup_pc,
                   sup_todo, sup_cfg, ncalls, workers, nworkers, sent>>

\* Server::remove_listener up to the delete: cmd_tx.send(Remove(id))
remove_listener(id) ==
    /\ CanCall
    /\ Len(mailbox) < MailboxCap
    /\ ncalls' = ncalls + 1
    /\ mailbox' = Append(mailbox, Remove(id))
    /\ calls' = calls \cup {Call("remove_delete", IdOnly(id), 0, G1)}
    /\ UNCHANGED <<shutdown, listeners, db_listeners, db_posts, cfg_tx, sup_pc,
                   sup_todo, sup_cfg, workers, nworkers, sent>>

\* Server::remove_listener: delete_listener
\* a delete_listener that also clears the posts table
remove_delete_posts(k) ==
    /\ k \in calls /\ k.op = "remove_delete"
    /\ db_listeners' = delete_listener(db_listeners, k.cfg.id)
    /\ db_posts' = [p \in PostIds |-> None]
    /\ calls' = calls \ {k}
    /\ UNCHANGED <<shutdown, listeners, mailbox, cfg_tx, sup_pc, sup_todo,
                   sup_cfg, ncalls, workers, nworkers, sent>>

\* a remove_listener that takes the entry out of the map itself
remove_delete_unmap(k) ==
    /\ k \in calls /\ k.op = "remove_delete"
    /\ db_listeners' = delete_listener(db_listeners, k.cfg.id)
    /\ listeners' = [listeners EXCEPT ![k.cfg.id] = 0]
    /\ calls' = calls \ {k}
    /\ UNCHANGED <<shutdown, db_posts, mailbox, cfg_tx, sup_pc, sup_todo,
                   sup_cfg, ncalls, workers, nworkers, sent>>

remove_delete(k) ==
    /\ k \in calls /\ k.op = "remove_delete"
    /\ db_listeners' = delete_listener(db_listeners, k.cfg.id)
    /\ calls' = calls \ {k}
    /\ UNCHANGED <<shutdown, listeners, db_posts, mailbox, cfg_tx, sup_pc, sup_todo,
                   sup_cfg, ncalls, workers, nworkers, sent>>

\* an update_listener that goes on when the lookup finds nothing
NeverNotFound(c) == FALSE

\* update_listener: listeners.get(&cfg.id) is None, the call returns the error
NotFound(c) == listeners[c.id] = 0

\* Server::update_listener up to reconfigure: the lookup and the global snapshot
update_listener(c) ==
    /\ CanCall
    /\ ncalls' = ncalls + 1
    /\ IF NotFound(c)
       THEN UNCHANGED calls
       ELSE calls' = calls \cup {Call("update_reconfigure", c, listeners[c.id], cfg_tx)}
    /\ UNCHANGED <<shutdown, listeners, db_listeners, db_posts, mailbox, cfg_tx,
                   sup_pc, sup_todo, sup_cfg, workers, nworkers, sent>>

\* Listener::reconfigure
reconfigure(w, g, c) ==
    workers' = [workers EXCEPT ![w].cfg = merge_with(c, g), ![w].raw = c]

\* Server::update_listener: listener.reconfigure(&global_cfg, cfg)
update_reconfigure(k) ==
    /\ k \in calls /\ k.op = "update_reconfigure"
    /\ reconfigure(k.w, k.g, k.cfg)
    /\ calls' = (calls \ {k}) \cup
                (IF RowPanics(k.cfg) THEN {} ELSE {Call("update_persist", k.cfg, 0, k.g)})
    /\ UNCHANGED <<shutdown, listeners, db_listeners, db_posts, mailbox, cfg_tx,
                   sup_pc, sup_todo, sup_cfg, ncalls, nworkers, sent>>

\* Server::update_listener: insert_listener
update_persist(k) ==
    /\ k \in calls /\ k.op = "update_persist"
    /\ db_listeners' = insert_listener(db_listeners, RowFromConfig(k.cfg))
    /\ calls' = calls \ {k}
    /\ UNCHANGED <<shutdown, listeners, db_posts, mailbox, cfg_tx, sup_pc, sup_todo,
                   sup_cfg, ncalls, workers, nworkers, sent>>

\* Server::get_listener: db.get_listener(id), a read of the listeners table
get_listener(id) ==
    /\ CanCall
    /\ ncalls' = ncalls + 1
    /\ UNCHANGED <<shutdown, listeners, db_listeners, db_posts, mailbox, cfg_tx,
                   sup_pc, sup_todo, sup_cfg, calls, workers, nworkers, sent>>

\* Server::get_all_listeners: db.get_all_listeners(), a read of the listeners table
get_all_listeners ==
    /\ CanCall
    /\ ncalls' = ncalls + 1
    /\ UNCHANGED <<shutdown, listeners, db_listeners, db_posts, mailbox, cfg_tx,
                   sup_pc, sup_todo, sup_cfg, calls, workers, nworkers, sent>>

\* watch::Sender::send: an error that leaves the value alone when no Receiver is
\* alive, else the value is replaced and every Receiver sees a change
update_global_config(g) ==
    /\ CanCall
    /\ ncalls' = ncalls + 1
    /\ IF \A w \in Workers : workers[w].pc \notin Running
       THEN UNCHANGED <<cfg_tx, workers>>
       ELSE /\ cfg_tx' = g
            /\ workers' = [w \in Workers |->
                  IF workers[w].pc \in Running
                  THEN [workers[w] EXCEPT !.changed = TRUE] ELSE workers[w]]
    /\ UNCHANGED <<shutdown, listeners, db_listeners, db_posts, mailbox, sup_pc,
                   sup_todo, sup_cfg, calls, nworkers, sent>>

\* the signal handler of main.rs: shutdown.cancel()
stop ==
    /\ ~shutdown
    /\ shutdown' = TRUE
    /\ UNCHANGED <<listeners, db_listeners, db_posts, mailbox, cfg_tx, sup_pc,
                   sup_todo, sup_cfg, calls, ncalls, workers, nworkers, sent>>

\* --------------------------------------------------------------- supervisor

\* Server::run: get_all_listeners() at the head of the restore loop
run_start ==
    /\ sup_pc = "start"
    /\ sup_todo' = {db_listeners[i][1] : i \in {j \in Ids : db_listeners[j] # None}}
    /\ sup_pc' = "restore"
    /\ UNCHANGED <<shutdown, listeners, db_listeners, db_posts, mailbox, cfg_tx,
                   sup_cfg, calls, ncalls, workers, nworkers, sent>>

\* the restore loop: add_listener(ListenerConfig::from(row)) up to its send, or
\* the end of the loop and cmd_rx.lock()
run_restore ==
    /\ sup_pc = "restore"
    /\ IF sup_todo = {}
       THEN /\ sup_pc' = "loop"
            /\ UNCHANGED <<db_listeners, sup_todo, sup_cfg>>
       ELSE \E row \in sup_todo :
            /\ sup_todo' = sup_todo \ {row}
            /\ sup_cfg' = Some([raw |-> ConfigFromRow(row), cfg |-> ConfigFromRow(row)])
            /\ db_listeners' =
                   insert_listener(db_listeners, RowFromConfig(ConfigFromRow(row)))
            /\ sup_pc' = "restore_send"
    /\ UNCHANGED <<shutdown, listeners, db_posts, mailbox, cfg_tx, calls, ncalls,
                   workers, nworkers, sent>>

\* the restore loop: the send of add_listener, which waits for room in the mailbox
run_restore_send ==
    /\ sup_pc = "restore_send"
    /\ Len(mailbox) < MailboxCap
    /\ mailbox' = Append(mailbox, Add(sup_cfg[1].raw))
    /\ sup_cfg' = None
    /\ sup_pc' = "restore"
    /\ UNCHANGED <<shutdown, listeners, db_listeners, db_posts, cfg_tx, sup_todo,
                   calls, ncalls, workers, nworkers, sent>>

\* Listener::stop
ListenerStop(ws, w) == [ws EXCEPT ![w].token = TRUE]

\* Server::shutdown_listener on the map m and the worker objects ws
\* shutdown_listener that removes the entry without calling stop()
ShutdownListenerNoStop(m, ws, id) == ws

ShutdownListenerMap(m, id) == [m EXCEPT ![id] = 0]
ShutdownListenerWorkers(m, ws, id) == IF m[id] = 0 THEN ws ELSE ListenerStop(ws, m[id])

\* a mailbox that hands out the newest command first
RecvNewest == mailbox[Len(mailbox)]

\* the command cmd_rx.recv() yields
RecvCmd == Head(mailbox)
RecvRest == Tail(mailbox)

\* the select! of Server::run, branch cmd_rx.recv(): Remove runs shutdown_listener,
\* Add enters spawn_listener, whose first statement merges with cfg_tx.borrow()
run_recv ==
    /\ sup_pc = "loop"
    /\ mailbox # <<>>
    /\ mailbox' = RecvRest
    /\ IF RecvCmd.type = "Remove"
       THEN /\ listeners' = ShutdownListenerMap(listeners, RecvCmd.cfg.id)
            /\ workers' = ShutdownListenerWorkers(listeners, workers, RecvCmd.cfg.id)
            /\ UNCHANGED <<sup_pc, sup_cfg>>
       ELSE /\ sup_cfg' = Some([raw |-> RecvCmd.cfg, cfg |-> merge_with(RecvCmd.cfg, cfg_tx)])
            /\ sup_pc' = "spawn"
            /\ UNCHANGED <<listeners, workers>>
    /\ UNCHANGED <<shutdown, db_listeners, db_posts, cfg_tx, sup_todo, calls, ncalls,
                   nworkers, sent>>

\* a check that treats an Add as a duplicate only when its config is the live one
ExistsWithSameConfig(c) == listeners[c.id] # 0 /\ workers[listeners[c.id]].cfg = c

\* spawn_listener without the contains_key check
NeverExists(c) == FALSE

\* the check of spawn_listener that the id is not in the map yet
AlreadyExists(c) == listeners[c.id] # 0

\* Listener::new without the call of validate
ListenerNewUnchecked(c) == TRUE

\* Listener::new up to create_client
ListenerNewOk(c) == validate(c)

\* the worker object Listener::new builds and the task spawn_local starts; raw is
\* the config of the Add command before the merge
NewWorker(c, raw) ==
    [cfg |-> c, raw |-> raw, token |-> FALSE, pc |-> "fetch", changed |-> FALSE,
     url |-> c.channel_url, page |-> <<>>, new_posts |-> <<>>, att |-> 0, hook |-> "",
     snap |-> IdOnly("a"), res |-> None]

\* spawn_listener after the merge: proxy_ok is whether get_proxy obtained a line
spawn_listener(proxy_ok) ==
    /\ sup_pc = "spawn"
    /\ sup_pc' = "loop"
    /\ sup_cfg' = None
    /\ LET c == sup_cfg[1].cfg IN
       IF \/ AlreadyExists(c)
          \/ ~ListenerNewOk(c)
          \/ (c.proxy_list_url # None /\ ~proxy_ok)
       THEN UNCHANGED <<listeners, workers, nworkers>>
       ELSE /\ nworkers' = nworkers + 1
            /\ listeners' = [listeners EXCEPT ![c.id] = nworkers + 1]
            /\ workers' = [workers EXCEPT ![nworkers + 1] = NewWorker(c, sup_cfg[1].raw)]
    /\ UNCHANGED <<shutdown, db_listeners, db_posts, mailbox, cfg_tx, sup_todo, calls,
                   ncalls, sent>>

\* a stop_all that clears the map without stopping the listeners
StopNoWorkers == workers

\* Server::stop_all
StopAllWorkers ==
    [w \in Workers |->
        IF \E i \in Ids : listeners[i] = w THEN [workers[w] EXCEPT !.token = TRUE]
        ELSE workers[w]]

\* the select! of Server::run, branch shutdown.cancelled(): stop_all, then break
run_shutdown ==
    /\ sup_pc = "loop"
    /\ shutdown
    /\ workers' = StopAllWorkers
    /\ listeners' = [i \in Ids |-> 0]
    /\ sup_pc' = "stopped"
    /\ UNCHANGED <<shutdown, db_listeners, db_posts, mailbox, cfg_tx, sup_todo,
                   sup_cfg, calls, ncalls, nworkers, sent>>

\* run_until returns and the LocalSet is dropped with the tasks still on it
run_exit ==
    /\ sup_pc = "stopped"
    /\ sup_pc' = "exited"
    /\ workers' = [w \in Workers |->
          IF workers[w].pc \in Running THEN [workers[w] EXCEPT !.pc = "dropped"]
          ELSE workers[w]]
    /\ UNCHANGED <<shutdown, listeners, db_listeners, db_posts, mailbox, cfg_tx,
                   sup_todo, sup_cfg, calls, ncalls, nworkers, sent>>

\* ------------------------------------------------------------------- worker

\* the locals of poll_cycle are gone
NoLocals(r) == [r EXCEPT !.page = <<>>, !.new_posts = <<>>, !.att = 0, !.hook = ""]

\* the head of the loop of Listener::run: channel_url is read, poll_cycle starts
LoopTop(r) ==
    [NoLocals(r) EXCEPT !.pc = "fetch", !.url = r.cfg.channel_url, !.res = None]

\* poll without the is_empty return: the batch is sent whatever its length
AfterPostsAlwaysSend(r) ==
    IF r.cfg.webhook_url = None THEN [NoLocals(r) EXCEPT !.pc = "failed"]
    ELSE [r EXCEPT !.pc = "send", !.att = 1, !.hook = r.cfg.webhook_url[1]]

\* poll: the statements after the loop over page.posts
AfterPosts(r) ==
    IF r.new_posts = <<>> THEN [NoLocals(r) EXCEPT !.pc = "sleep"]
    ELSE IF r.cfg.webhook_url = None THEN [NoLocals(r) EXCEPT !.pc = "failed"]
    ELSE [r EXCEPT !.pc = "send", !.att = 1, !.hook = r.cfg.webhook_url[1]]

\* poll: the loop over page.posts, at the next post or past the last
NextPost(r) == IF r.page = <<>> THEN AfterPosts(r) ELSE [r EXCEPT !.pc = "get"]

\* a cancellation branch that calls stop() and goes round the loop again
TakeCancelContinue(r) == [LoopTop(r) EXCEPT !.token = TRUE]

\* run: the branch shutdown.cancelled(): stop(), return Ok
TakeCancel(r) == [NoLocals(r) EXCEPT !.pc = "returned", !.token = TRUE, !.res = None]

\* run: the branch global_cfg.changed(): the config is read and merged with
\* borrow_and_update(); the write lock of reconfigure is still to be taken
TakeChanged(r) ==
    [NoLocals(r) EXCEPT !.pc = "reconf", !.changed = FALSE, !.res = None,
                        !.snap = merge_with(r.cfg, cfg_tx)]

\* select! polls its branches in one pass: when poll_cycle has moved to its next
\* await, a cancelled token or a pending change is taken in the same pass
Branches == {"poll", "cancel", "changed"}
BranchOk(r, br) ==
    IF r.pc \notin Awaiting THEN br = "poll"
    ELSE \/ br = "cancel" /\ r.token
         \/ br = "changed" /\ r.changed
         \/ br = "poll" /\ ~r.token /\ ~r.changed
Settle(r, br) ==
    IF br = "cancel" THEN TakeCancel(r)
    ELSE IF br = "changed" THEN TakeChanged(r)
    ELSE r

\* send_webhook_retry is entered with the posts of r.new_posts
CountSent(old, r) ==
    IF old.pc # "send" /\ r.pc = "send"
    THEN [p \in PostIds |->
            IF \E n \in 1..Len(r.new_posts) : r.new_posts[n] = p /\ sent[p] < 2
            THEN sent[p] + 1 ELSE sent[p]]
    ELSE sent

\* the LocalSet runs its tasks while run_until is pending
TaskRuns(w) == sup_pc # "exited" /\ workers[w].pc \in Awaiting

\* one await of poll_cycle completes and worker w becomes r
Step(w, r, br) ==
    /\ BranchOk(r, br)
    /\ workers' = [workers EXCEPT ![w] = Settle(r, br)]
    /\ sent' = CountSent(workers[w], r)

\* parser::fetch_html and parser::parse_page fail or parse_page is None
poll_fetch_err(w) ==
    /\ TaskRuns(w) /\ workers[w].pc = "fetch"
    /\ Step(w, [NoLocals(workers[w]) EXCEPT !.pc = "failed"], "poll")
    /\ UNCHANGED <<shutdown, listeners, db_listeners, db_posts, mailbox, cfg_tx,
                   sup_pc, sup_todo, sup_cfg, calls, ncalls, nworkers>>

\* parser::fetch_html and parser::parse_page yield a page
poll_fetch(w, page, br) ==
    /\ TaskRuns(w) /\ workers[w].pc = "fetch"
    /\ Step(w, NextPost([workers[w] EXCEPT !.page = page, !.new_posts = <<>>]), br)
    /\ UNCHANGED <<shutdown, listeners, db_listeners, db_posts, mailbox, cfg_tx,
                   sup_pc, sup_todo, sup_cfg, calls, ncalls, nworkers>>

\* poll: db.get_posts(&post.id) for the post at hand
poll_get(w, br) ==
    /\ TaskRuns(w) /\ workers[w].pc = "get"
    /\ LET r == workers[w]
           res == get_posts(db_posts, Head(r.page)) IN
       Step(w, IF res.tag = "none" THEN [r EXCEPT !.pc = "insert"]
               ELSE IF res.tag = "some" THEN NextPost([r EXCEPT !.page = Tail(r.page)])
               ELSE [NoLocals(r) EXCEPT !.pc = "failed"], br)
    /\ UNCHANGED <<shutdown, listeners, db_listeners, db_posts, mailbox, cfg_tx,
                   sup_pc, sup_todo, sup_cfg, calls, ncalls, nworkers>>

\* poll: db.insert_post(post), new_posts.push(post)
poll_insert(w, br) ==
    /\ TaskRuns(w) /\ workers[w].pc = "insert"
    /\ LET r == workers[w] IN
       /\ db_posts' = insert_post(db_posts, PostOf(Head(r.page)))
       /\ Step(w, NextPost([r EXCEPT !.page = Tail(r.page),
                                     !.new_posts = Append(r.new_posts, Head(r.page))]), br)
    /\ UNCHANGED <<shutdown, listeners, db_listeners, mailbox, cfg_tx, sup_pc,
                   sup_todo, sup_cfg, calls, ncalls, nworkers>>

\* what send_webhook_retry returned to poll, after att attempts
Returned(ok, att) == Some([ok |-> ok, att |-> att])

\* a send_webhook_retry that goes on after the last attempt has failed
SendResultNoLimit(r, ok) ==
    IF ok THEN [NoLocals(r) EXCEPT !.pc = "sleep", !.res = Returned(TRUE, r.att)]
    ELSE [r EXCEPT !.att = r.att + 1]

\* a poll that returns the error of send_webhook_retry with ?
SendResultPropagated(r, ok) ==
    IF ok THEN [NoLocals(r) EXCEPT !.pc = "sleep", !.res = Returned(TRUE, r.att)]
    ELSE IF r.att < MaxRetries THEN [r EXCEPT !.att = r.att + 1]
    ELSE [NoLocals(r) EXCEPT !.pc = "failed", !.res = Returned(FALSE, r.att)]

\* send_webhook: the x-secret header of an attempt is read from the worker's
\* config when the attempt starts
AttemptSecret(r) == r.cfg.webhook_secret

\* send_webhook_retry: attempt att ends; ok is whether send_webhook returned Ok.
\* poll logs an Err and returns Ok(()), poll_cycle goes on to the sleep.
SendResult(r, ok) ==
    IF ok THEN [NoLocals(r) EXCEPT !.pc = "sleep", !.res = Returned(TRUE, r.att)]
    ELSE IF r.att < MaxRetries THEN [r EXCEPT !.att = r.att + 1]
    ELSE [NoLocals(r) EXCEPT !.pc = "sleep", !.res = Returned(FALSE, r.att)]

poll_send(w, ok, br) ==
    /\ TaskRuns(w) /\ workers[w].pc = "send"
    /\ Step(w, SendResult(workers[w], ok), br)
    /\ UNCHANGED <<shutdown, listeners, db_listeners, db_posts, mailbox, cfg_tx,
                   sup_pc, sup_todo, sup_cfg, calls, ncalls, nworkers>>

\* poll_cycle: the sleep of poll_interval ends, run loops
poll_sleep(w, br) ==
    /\ TaskRuns(w) /\ workers[w].pc = "sleep"
    /\ Step(w, LoopTop(workers[w]), br)
    /\ UNCHANGED <<shutdown, listeners, db_listeners, db_posts, mailbox, cfg_tx,
                   sup_pc, sup_todo, sup_cfg, calls, ncalls, nworkers>>

\* run: shutdown.cancelled() is taken while poll_cycle is pending
run_cancelled(w) ==
    /\ TaskRuns(w) /\ workers[w].token
    /\ workers' = [workers EXCEPT ![w] = TakeCancel(workers[w])]
    /\ UNCHANGED <<shutdown, listeners, db_listeners, db_posts, mailbox, cfg_tx,
                   sup_pc, sup_todo, sup_cfg, calls, ncalls, nworkers, sent>>

\* run: global_cfg.changed() is taken while poll_cycle is pending
run_changed(w) ==
    /\ TaskRuns(w) /\ workers[w].changed
    /\ workers' = [workers EXCEPT ![w] = TakeChanged(workers[w])]
    /\ UNCHANGED <<shutdown, listeners, db_listeners, db_posts, mailbox, cfg_tx,
                   sup_pc, sup_todo, sup_cfg, calls, ncalls, nworkers, sent>>

\* run: the write of reconfigure, then the head of the loop
run_reconfigure(w) ==
    /\ sup_pc # "exited" /\ workers[w].pc = "reconf"
    /\ workers' = [workers EXCEPT ![w] =
          LoopTop([workers[w] EXCEPT !.cfg = workers[w].snap, !.snap = IdOnly("a")])]
    /\ UNCHANGED <<shutdown, listeners, db_listeners, db_posts, mailbox, cfg_tx,
                   sup_pc, sup_todo, sup_cfg, calls, ncalls, nworkers, sent>>

\* ------------------------------------------------------------ specification

Supervisor ==
    \/ run_start
    \/ run_restore
    \/ run_restore_send
    \/ run_recv
    \/ \E ok \in BOOLEAN : spawn_listener(ok)
    \/ run_shutdown
    \/ run_exit

\* the worker tasks, the channel pages being those of P
Worker(w, P(_)) ==
    \/ poll_fetch_err(w)
    \/ \E page \in P(workers[w].url), br \in Branches : poll_fetch(w, page, br)
    \/ \E br \in Branches : poll_get(w, br)
    \/ \E br \in Branches : poll_insert(w, br)
    \/ \E ok \in BOOLEAN, br \in Branches : poll_send(w, ok, br)
    \/ \E br \in Branches : poll_sleep(w, br)
    \/ run_cancelled(w)
    \/ run_changed(w)
    \/ run_reconfigure(w)

\* Spec: the control plane with every kind of config, over channels without posts
NoPosts(url) == IF url = GoodChannel THEN {<<>>} ELSE {}

AddInputs ==
    {CfgOk("a"), CfgInherit("a"), CfgBadChannel("a"), CfgLowInterval("a"),
     CfgNoInterval("a"), CfgProxy("b")}
UpdateInputs == {CfgOther("a"), CfgInherit("a"), CfgLowInterval("a")}
RemoveInputs == {"a"}
GlobalInputs == {G2}

ControlPlane ==
    \/ \E c \in AddInputs : add_listener(c)
    \/ \E k \in calls : add_send(k)
    \/ \E i \in RemoveInputs : remove_listener(i)
    \/ \E k \in calls : remove_delete(k)
    \/ \E c \in UpdateInputs : update_listener(c)
    \/ \E k \in calls : update_reconfigure(k)
    \/ \E k \in calls : update_persist(k)
    \/ \E g \in GlobalInputs : update_global_config(g)
    \/ stop

WorkersNoPosts ==
    \/ \E w \in Workers : poll_fetch_err(w)
    \/ \E w \in Workers : \E page \in NoPosts(workers[w].url), br \in Branches :
          poll_fetch(w, page, br)
    \/ \E w \in Workers, br \in Branches : poll_sleep(w, br)
    \/ \E w \in Workers : run_cancelled(w)
    \/ \E w \in Workers : run_changed(w)
    \/ \E w \in Workers : run_reconfigure(w)

Next == ControlPlane \/ Supervisor \/ WorkersNoPosts

Spec == Init /\ [][Next]_vars

\* SpecPoll: two restored listeners poll the same channel, which shows no post or
\* the post p1; the control plane changes the global config, removes a listener
\* and stops the server
OnePost(url) == IF url = GoodChannel THEN {<<>>, <<"p1">>} ELSE {}

InitPoll ==
    /\ shutdown = FALSE
    /\ listeners = [i \in Ids |-> 0]
    /\ db_listeners = [i \in Ids |->
          Some(RowFromConfig(IF i = "a" THEN CfgInherit(i) ELSE CfgOk(i)))]
    /\ db_posts = [p \in PostIds |-> None]
    /\ mailbox = <<>>
    /\ cfg_tx = G1
    /\ sup_pc = "start"
    /\ sup_todo = {}
    /\ sup_cfg = None
    /\ calls = {}
    /\ ncalls = 0
    /\ workers = [w \in Workers |-> Unused]
    /\ nworkers = 0
    /\ sent = [p \in PostIds |-> 0]

ControlPlanePoll ==
    \/ \E g \in GlobalInputs : update_global_config(g)
    \/ \E i \in RemoveInputs : remove_listener(i)
    \/ \E k \in calls : remove_delete(k)
    \/ stop

NextPoll ==
    ControlPlanePoll \/ Supervisor \/ \E w \in Workers : Worker(w, OnePost)

SpecPoll == InitPoll /\ [][NextPoll]_vars

\* SpecFair: one restored listener whose channel shows up to two posts, global
\* updates, removal and stop, under the scheduling of the runtime. The supervisor
\* task is polled when it can move; select! in Listener::run takes a branch that
\* stays ready, so a fired token is taken; the write lock of reconfigure is granted.
InitFair ==
    /\ shutdown = FALSE
    /\ listeners = [i \in Ids |-> 0]
    /\ db_listeners = [i \in Ids |->
          IF i = "a" THEN Some(RowFromConfig(CfgInherit(i))) ELSE None]
    /\ db_posts = [p \in PostIds |-> None]
    /\ mailbox = <<>>
    /\ cfg_tx = G1
    /\ sup_pc = "start"
    /\ sup_todo = {}
    /\ sup_cfg = None
    /\ calls = {}
    /\ ncalls = 0
    /\ workers = [w \in Workers |-> Unused]
    /\ nworkers = 0
    /\ sent = [p \in PostIds |-> 0]

NextFair ==
    ControlPlanePoll \/ Supervisor \/ \E w \in Workers : Worker(w, Pages)

Fairness ==
    /\ WF_vars(Supervisor)
    /\ \A w \in Workers : WF_vars(run_cancelled(w))
    /\ \A w \in Workers : WF_vars(run_reconfigure(w))

SpecFair == InitFair /\ [][NextFair]_vars /\ Fairness

\* configs of id "a" that validate under G1
ValidInputs == {CfgOk("a"), CfgInherit("a"), CfgProxy("a")}

\* SpecAddRemove: one caller completes add_listener with a valid config for "a" and
\* then remove_listener("a"); the store starts with a row for "b" only
InitAddRemove ==
    /\ shutdown = FALSE
    /\ listeners = [i \in Ids |-> 0]
    /\ db_listeners = [i \in Ids |->
          IF i = "b" THEN Some(RowFromConfig(CfgOk(i))) ELSE None]
    /\ db_posts = [p \in PostIds |-> None]
    /\ mailbox = <<>>
    /\ cfg_tx \in {G1, GNone}
    /\ sup_pc = "start"
    /\ sup_todo = {}
    /\ sup_cfg = None
    /\ calls = {}
    /\ ncalls = 0
    /\ workers = [w \in Workers |-> Unused]
    /\ nworkers = 0
    /\ sent = [p \in PostIds |-> 0]

ControlPlaneAddRemove ==
    \/ ncalls = 0 /\ \E c \in ValidInputs : add_listener(c)
    \/ \E k \in calls : add_send(k)
    \/ ncalls = 1 /\ calls = {} /\ remove_listener("a")
    \/ \E k \in calls : remove_delete(k)
    \/ stop

WorkersAddRemove ==
    \/ \E w \in Workers : poll_fetch_err(w)
    \/ \E w \in Workers : \E page \in NoPosts(workers[w].url), br \in Branches :
          poll_fetch(w, page, br)
    \/ \E w \in Workers, br \in Branches : poll_sleep(w, br)
    \/ \E w \in Workers : run_cancelled(w)

NextAddRemove == ControlPlaneAddRemove \/ Supervisor \/ WorkersAddRemove

SpecAddRemove == InitAddRemove /\ [][NextAddRemove]_vars

\* SpecCycle: one listener, restored from a valid row, polling undisturbed (no removal, no global
\* update, no stop, the channel always fetchable). The channel has published p1,
\* p3 and p2 in that order and a fetch shows the first one, two or three of them.
DocOrder == <<"p1", "p3", "p2">>

Shown(url) == IF url = GoodChannel THEN {SubSeq(DocOrder, 1, n) : n \in 1..3} ELSE {}

InitCycle ==
    /\ shutdown = FALSE
    /\ listeners = [i \in Ids |-> 0]
    /\ \E c \in ValidInputs :
          db_listeners = [i \in Ids |-> IF i = "a" THEN Some(RowFromConfig(c)) ELSE None]
    /\ db_posts = [p \in PostIds |-> None]
    /\ mailbox = <<>>
    /\ cfg_tx = G1
    /\ sup_pc = "start"
    /\ sup_todo = {}
    /\ sup_cfg = None
    /\ calls = {}
    /\ ncalls = 0
    /\ workers = [w \in Workers |-> Unused]
    /\ nworkers = 0
    /\ sent = [p \in PostIds |-> 0]

NextCycle ==
    \/ run_start
    \/ run_restore
    \/ run_restore_send
    \/ run_recv
    \/ \E ok \in BOOLEAN : spawn_listener(ok)
    \/ \E w \in Workers : \E page \in Shown(workers[w].url), br \in Branches :
          poll_fetch(w, page, br)
    \/ \E w \in Workers, br \in Branches : poll_get(w, br)
    \/ \E w \in Workers, br \in Branches : poll_insert(w, br)
    \/ \E w \in Workers, ok \in BOOLEAN, br \in Branches : poll_send(w, ok, br)
    \/ \E w \in Workers, br \in Branches : poll_sleep(w, br)

SpecCycle == InitCycle /\ [][NextCycle]_vars

\* SpecUpdate: update_listener is the only call made; the store starts with a row
\* for "a" or with none
InitUpdate ==
    /\ shutdown = FALSE
    /\ listeners = [i \in Ids |-> 0]
    /\ \E r \in {None, Some(RowFromConfig(CfgOk("a")))} :
          db_listeners = [i \in Ids |-> IF i = "a" THEN r ELSE None]
    /\ db_posts = [p \in PostIds |-> None]
    /\ mailbox = <<>>
    /\ cfg_tx = G1
    /\ sup_pc = "start"
    /\ sup_todo = {}
    /\ sup_cfg = None
    /\ calls = {}
    /\ ncalls = 0
    /\ workers = [w \in Workers |-> Unused]
    /\ nworkers = 0
    /\ sent = [p \in PostIds |-> 0]

ControlPlaneUpdate ==
    \/ \E c \in UpdateInputs : update_listener(c)
    \/ \E k \in calls : update_reconfigure(k)
    \/ \E k \in calls : update_persist(k)
    \/ stop

NextUpdate == ControlPlaneUpdate \/ Supervisor \/ WorkersAddRemove

SpecUpdate == InitUpdate /\ [][NextUpdate]_vars

\* SpecDuplicate: the listener "a" is restored from its row and add_listener is
\* called for "a" again, with the same or another valid config
InitDuplicate ==
    /\ shutdown = FALSE
    /\ listeners = [i \in Ids |-> 0]
    /\ db_listeners = [i \in Ids |->
          IF i = "a" THEN Some(RowFromConfig(CfgOk(i))) ELSE None]
    /\ db_posts = [p \in PostIds |-> None]
    /\ mailbox = <<>>
    /\ cfg_tx = G1
    /\ sup_pc = "start"
    /\ sup_todo = {}
    /\ sup_cfg = None
    /\ calls = {}
    /\ ncalls = 0
    /\ workers = [w \in Workers |-> Unused]
    /\ nworkers = 0
    /\ sent = [p \in PostIds |-> 0]

ControlPlaneDuplicate ==
    \/ \E c \in ValidInputs : add_listener(c)
    \/ \E k \in calls : add_send(k)
    \/ stop

NextDuplicate == ControlPlaneDuplicate \/ Supervisor \/ WorkersAddRemove

SpecDuplicate == InitDuplicate /\ [][NextDuplicate]_vars

\* SpecFrame: the listener "a" is restored from its row and every call of the
\* control-plane API is made: add of "b", remove and update of "a", a global
\* update, the two reads, and stop
InitFrame ==
    /\ shutdown = FALSE
    /\ listeners = [i \in Ids |-> 0]
    /\ db_listeners = [i \in Ids |->
          IF i = "a" THEN Some(RowFromConfig(CfgOk(i))) ELSE None]
    /\ db_posts = [p \in PostIds |-> None]
    /\ mailbox = <<>>
    /\ cfg_tx = G1
    /\ sup_pc = "start"
    /\ sup_todo = {}
    /\ sup_cfg = None
    /\ calls = {}
    /\ ncalls = 0
    /\ workers = [w \in Workers |-> Unused]
    /\ nworkers = 0
    /\ sent = [p \in PostIds |-> 0]

ControlPlaneFrame ==
    \/ add_listener(CfgOk("b"))
    \/ \E k \in calls : add_send(k)
    \/ remove_listener("a")
    \/ \E k \in calls : remove_delete(k)
    \/ update_listener(CfgOther("a"))
    \/ \E k \in calls : update_reconfigure(k)
    \/ \E k \in calls : update_persist(k)
    \/ update_global_config(G2)
    \/ get_listener("a")
    \/ get_all_listeners
    \/ stop

NextFrame == ControlPlaneFrame \/ Supervisor \/ WorkersNoPosts

SpecFrame == InitFrame /\ [][NextFrame]_vars

\* SpecMap: the calls that lead to changes of the live-worker map, add_listener
\* with every kind of config for "a" and remove_listener("a"), from the initial
\* states of Spec
MapInputs ==
    {CfgOk("a"), CfgInherit("a"), CfgBadChannel("a"), CfgLowInterval("a"), CfgNoInterval("a")}

ControlPlaneMap ==
    \/ \E c \in MapInputs : add_listener(c)
    \/ \E k \in calls : add_send(k)
    \/ \E i \in RemoveInputs : remove_listener(i)
    \/ \E k \in calls : remove_delete(k)
    \/ stop

NextMap == ControlPlaneMap \/ Supervisor \/ WorkersAddRemove

SpecMap == Init /\ [][NextMap]_vars

\* SpecReplace: the listener "a" is restored from its row; one caller removes it
\* and then adds it again; the channel shows no post or the post p1
InitReplace ==
    /\ shutdown = FALSE
    /\ listeners = [i \in Ids |-> 0]
    /\ db_listeners = [i \in Ids |->
          IF i = "a" THEN Some(RowFromConfig(CfgOk(i))) ELSE None]
    /\ db_posts = [p \in PostIds |-> None]
    /\ mailbox = <<>>
    /\ cfg_tx = G1
    /\ sup_pc = "start"
    /\ sup_todo = {}
    /\ sup_cfg = None
    /\ calls = {}
    /\ ncalls = 0
    /\ workers = [w \in Workers |-> Unused]
    /\ nworkers = 0
    /\ sent = [p \in PostIds |-> 0]

ControlPlaneReplace ==
    \/ ncalls = 0 /\ remove_listener("a")
    \/ \E k \in calls : remove_delete(k)
    \/ ncalls = 1 /\ calls = {} /\ add_listener(CfgOk("a"))
    \/ \E k \in calls : add_send(k)
    \/ stop

WorkersReplace ==
    \/ \E w \in Workers : poll_fetch_err(w)
    \/ \E w \in Workers : \E page \in OnePost(workers[w].url), br \in Branches :
          poll_fetch(w, page, br)
    \/ \E w \in Workers, br \in Branches : poll_get(w, br)
    \/ \E w \in Workers, br \in Branches : poll_insert(w, br)
    \/ \E w \in Workers, ok \in BOOLEAN, br \in Branches : poll_send(w, ok, br)
    \/ \E w \in Workers, br \in Branches : poll_sleep(w, br)
    \/ \E w \in Workers : run_cancelled(w)

NextReplace == ControlPlaneReplace \/ Supervisor \/ WorkersReplace

SpecReplace == InitReplace /\ [][NextReplace]_vars

\* SpecSecret: the listener "a" is restored from its row (webhook_url U1, the
\* secret S1 comes from the global config); update_listener gives it webhook_url
\* U2 and secret S2 while it polls a channel that shows no post or the post p1
ControlPlaneSecret ==
    \/ update_listener(CfgOther("a"))
    \/ \E k \in calls : update_reconfigure(k)
    \/ \E k \in calls : update_persist(k)
    \/ stop

NextSecret == ControlPlaneSecret \/ Supervisor \/ WorkersReplace

SpecSecret == InitReplace /\ [][NextSecret]_vars

\* SpecRestart: the store starts empty, add_listener is called for "a", the
\* server is stopped and the process is started again on the same store with the
\* same global config
InitRestart ==
    /\ shutdown = FALSE
    /\ listeners = [i \in Ids |-> 0]
    /\ db_listeners = [i \in Ids |-> None]
    /\ db_posts = [p \in PostIds |-> None]
    /\ mailbox = <<>>
    /\ cfg_tx = G1
    /\ sup_pc = "start"
    /\ sup_todo = {}
    /\ sup_cfg = None
    /\ calls = {}
    /\ ncalls = 0
    /\ workers = [w \in Workers |-> Unused]
    /\ nworkers = 0
    /\ sent = [p \in PostIds |-> 0]

RestartInputs == {CfgOk("a"), CfgInherit("a"), CfgOther("a")}

\* main: the process has ended after run returned and is started again;
\* Server::new builds a fresh token, map, mailbox and watch channel over the same
\* database file and environment. The worker objects of the first run are kept
\* as history; a second start happens while at most one worker was ever created.
restart ==
    /\ sup_pc = "exited"
    /\ nworkers <= 1
    /\ shutdown' = FALSE
    /\ listeners' = [i \in Ids |-> 0]
    /\ mailbox' = <<>>
    /\ calls' = {}
    /\ sup_pc' = "start"
    /\ sup_todo' = {}
    /\ sup_cfg' = None
    /\ UNCHANGED <<db_listeners, db_posts, cfg_tx, ncalls, workers, nworkers, sent>>

ControlPlaneRestart ==
    \/ \E c \in RestartInputs : add_listener(c)
    \/ \E k \in calls : add_send(k)
    \/ stop

NextRestart == ControlPlaneRestart \/ Supervisor \/ WorkersAddRemove \/ restart

SpecRestart == InitRestart /\ [][NextRestart]_vars

\* SpecStore: the posts table alone. A post is as complete as sample_post of the
\* tests, re-read with another view count, without a text element, or with no
\* optional element at all; the table starts empty and any of them is inserted.
sample_post(id) == [PostOf("p1") EXCEPT !.id = id]

PostVariants(id) ==
    {sample_post(id),
     [sample_post(id) EXCEPT !.views = Some("2K")],
     [sample_post(id) EXCEPT !.text = None],
     [id |-> id, author |-> None, text |-> None, media |-> None, reactions |-> None,
      views |-> None, date |-> None]}

StorePosts == UNION {PostVariants(id) : id \in PostIds}

InitStore ==
    /\ db_posts = [p \in PostIds |-> None]
    /\ shutdown = FALSE
    /\ listeners = [i \in Ids |-> 0]
    /\ db_listeners = [i \in Ids |-> None]
    /\ mailbox = <<>>
    /\ cfg_tx = G1
    /\ sup_pc = "start"
    /\ sup_todo = {}
    /\ sup_cfg = None
    /\ calls = {}
    /\ ncalls = 0
    /\ workers = [w \in Workers |-> Unused]
    /\ nworkers = 0
    /\ sent = [p \in PostIds |-> 0]

\* db.insert_post(&post) on the table
db_insert_post(p) ==
    /\ db_posts' = insert_post(db_posts, p)
    /\ UNCHANGED <<shutdown, listeners, db_listeners, mailbox, cfg_tx, sup_pc, sup_todo,
                   sup_cfg, calls, ncalls, workers, nworkers, sent>>

NextStore == \E p \in StorePosts : db_insert_post(p)

SpecStore == InitStore /\ [][NextStore]_vars

\* ------------------------------------------------------------------- claims

\* C1 (as claimed): over all workers that share the store, every post id is in the
\* new_posts of at most one send_webhook_retry call.
C1_SentAtMostOnce == \A p \in PostIds : sent[p] <= 1

\* C3 (as claimed): when a live worker has handled a change notification and no
\* further change is pending, every field its per-listener config left unset has
\* the current global value.
InheritsGlobal(r) ==
    /\ IsUnset(r.raw.webhook_url) => r.cfg.webhook_url = cfg_tx.webhook_url
    /\ IsUnset(r.raw.webhook_secret) => r.cfg.webhook_secret = cfg_tx.webhook_secret
    /\ IsUnset(r.raw.proxy_list_url) => r.cfg.proxy_list_url = cfg_tx.proxy_list_url
    /\ r.raw.poll_interval = None => r.cfg.poll_interval = cfg_tx.poll_interval
C3_GlobalReachesWorkers ==
    [][\A w \in Workers :
          (workers[w].pc = "reconf" /\ workers'[w].pc = "fetch" /\ ~workers'[w].changed)
              => InheritsGlobal(workers[w])']_vars

\* C10: send_webhook_retry is never running with an empty new_posts.
C10_NoEmptyBatch ==
    \A w \in Workers : workers[w].pc = "send" => workers[w].new_posts # <<>>

\* C10 witness: a cycle is at the last post of its page, the post is in the store
\* and nothing was new so far.
C10_Witness ==
    \E w \in Workers :
        /\ workers[w].pc = "get"
        /\ Len(workers[w].page) = 1
        /\ workers[w].new_posts = <<>>
        /\ db_posts[Head(workers[w].page)] # None

\* the worker objects of listener id i that were started and not stopped
LiveWorkers(i) ==
    {w \in Workers : /\ workers[w].pc # "unused"
                     /\ workers[w].cfg.id = i
                     /\ ~workers[w].token}

\* C2: per listener id at most one worker was started and not stopped, and it is
\* the one the map holds.
C2_SingleWorker ==
    \A i \in Ids :
        /\ Cardinality(LiveWorkers(i)) <= 1
        /\ listeners[i] # 0 => LiveWorkers(i) = {listeners[i]}

\* C2 witness: spawn_listener is processing an Add for an id that is in the map
\* while a second Add for that id waits in the mailbox.
C2_Witness ==
    /\ sup_pc = "spawn"
    /\ listeners[sup_cfg[1].cfg.id] # 0
    /\ \E n \in 1..Len(mailbox) :
          mailbox[n].type = "Add" /\ mailbox[n].cfg.id = sup_cfg[1].cfg.id

\* C4 (as claimed): the config of every worker of the map has a webhook_url and a
\* poll interval of at least 3.
C4_WorkerConfigValid ==
    \A i \in Ids : listeners[i] # 0 =>
        /\ workers[listeners[i]].cfg.webhook_url # None
        /\ unwrap_or(workers[listeners[i]].cfg.poll_interval, DefaultInterval) > MinRejected

\* the three defects of C5, on the config of an Add and its merge with the global
Rejectable(raw, merged) ==
    \/ ~starts_with(raw.channel_url, TmePrefix)
    \/ (raw.poll_interval # None /\ raw.poll_interval[1] < MinRejected + 1)
    \/ merged.webhook_url = None

\* C5: the step of spawn_listener on an Add with one of the three defects leaves
\* the map alone and starts no task.
C5_InvalidAddRejected ==
    [][(sup_pc = "spawn" /\ Rejectable(sup_cfg[1].raw, sup_cfg[1].cfg))
          => /\ listeners' = listeners
             /\ \A w \in Workers : workers[w].pc = "unused" => workers'[w].pc = "unused"]_vars

\* C5 witness: add_listener with a bad channel_url has written its row, its Add has
\* been consumed and the id is not in the map.
C5_Witness ==
    /\ db_listeners["a"] = Some(RowFromConfig(CfgBadChannel("a")))
    /\ calls = {} /\ mailbox = <<>> /\ sup_pc = "loop"
    /\ listeners["a"] = 0

\* C7 (as claimed): with no call in progress, an empty mailbox and the supervisor
\* in its loop, an id has a row iff it has a worker in the map.
C7_RowIffWorker ==
    (calls = {} /\ mailbox = <<>> /\ sup_pc = "loop")
        => \A i \in Ids : (db_listeners[i] # None) <=> (listeners[i] # 0)

\* C9: a step that takes a command out of the mailbox takes its head, acts on that
\* command, and happens only while no other command is being processed; a step
\* that puts one in appends it.
C9_Fifo ==
    [][mailbox' # mailbox =>
          \/ /\ Len(mailbox') = Len(mailbox) + 1
             /\ SubSeq(mailbox', 1, Len(mailbox)) = mailbox
          \/ /\ mailbox # <<>>
             /\ mailbox' = Tail(mailbox)
             /\ sup_pc = "loop"
             /\ IF Head(mailbox).type = "Add"
                THEN sup_pc' = "spawn" /\ sup_cfg'[1].raw = Head(mailbox).cfg
                ELSE /\ sup_pc' = "loop"
                     /\ listeners' = [listeners EXCEPT ![Head(mailbox).cfg.id] = 0]]_vars

\* C9 witness: the Add of an id is being processed while the Remove of that id,
\* enqueued behind it, waits in the mailbox.
C9_Witness ==
    /\ sup_pc = "spawn"
    /\ mailbox # <<>>
    /\ Head(mailbox) = Remove(sup_cfg[1].raw.id)

\* run() of worker w has ended: it returned, or its task went with the LocalSet
Ended(w) == workers[w].pc \notin Running

Processed(i) ==
    /\ \A n \in 1..Len(mailbox) : mailbox[n].cfg.id # i
    /\ ~(sup_pc = "spawn" /\ sup_cfg[1].raw.id = i)

C11_InsertIdempotent ==
    \A p \in StorePosts :
        LET once == insert_post(db_posts, p) IN
            /\ insert_post(once, p) = once
            /\ once[p.id] = Some(PostRowOf(p))
            /\ \A q \in PostIds \ {p.id} : once[q] = db_posts[q]

\* C11 witness: the table holds the row of a post of which another reading, with
\* another view count, is inserted next.
C11_Witness ==
    /\ sup_pc = "start" /\ nworkers = 0
    /\ db_posts["p1"] = Some(PostRowOf([sample_post("p1") EXCEPT !.views = Some("2K")]))
    /\ db_posts["p2"] = Some(PostRowOf(sample_post("p2")))

\* C12 (as claimed): whenever the table holds the row insert_post wrote for a post
\* p, get_posts(p.id) succeeds and returns p.
C12_RoundTrip ==
    \A p \in StorePosts :
        db_posts[p.id] = Some(PostRowOf(p)) =>
            get_posts(db_posts, p.id) = [tag |-> "some", post |-> Some(p)]

\* C13: get_posts is none for every id before any insert_post; it stops being
\* none for an id only in a step in which a worker's poll inserts that id, and
\* once it is not none it is not none in any later state.
C13_PostsKept ==
    /\ \A id \in PostIds : get_posts(db_posts, id).tag = "none"
    /\ [][\A id \in PostIds :
            /\ get_posts(db_posts, id).tag # "none" => get_posts(db_posts', id).tag # "none"
            /\ (get_posts(db_posts, id).tag = "none" /\ get_posts(db_posts', id).tag # "none")
                  => \E w \in Workers :
                        workers[w].pc = "insert" /\ Head(workers[w].page) = id]_vars

\* C13 witness: the listener whose worker stored p1 and p2 has been removed, its
\* row deleted, and the server has shut down; both posts are still there.
C13_Witness ==
    /\ db_posts["p1"] # None /\ db_posts["p2"] # None
    /\ db_listeners["a"] = None /\ listeners["a"] = 0
    /\ shutdown /\ sup_pc = "exited"

\* the ids of batch b are in document order, none twice
InDocOrder(b) ==
    \A m, n \in 1..Len(b) :
        m < n => \E i, j \in 1..Len(DocOrder) : i < j /\ DocOrder[i] = b[m] /\ DocOrder[j] = b[n]

C16_FailedBatchNotResent ==
    /\ [][\A w \in Workers :
            LET r == workers[w]
                r2 == workers'[w] IN
            (r.pc = "send" /\ r.att = MaxRetries /\ r2 # r /\ r2.res # Returned(TRUE, MaxRetries)) =>
                /\ r2.pc = "sleep"
                /\ r2.res = Returned(FALSE, MaxRetries)
                /\ db_posts' = db_posts
                /\ \A n \in 1..Len(r.new_posts) : db_posts[r.new_posts[n]] # None]_vars
    /\ [](\A p \in PostIds : sent[p] <= 1)

\* C16 witness: the batch <<p1>> failed five times, the worker is asleep before
\* its next cycle and p1 is stored.
C16_Witness ==
    \E w \in Workers :
        /\ workers[w].pc = "sleep" /\ workers[w].res = Returned(FALSE, MaxRetries)
        /\ db_posts["p1"] # None /\ db_posts["p3"] = None /\ sent["p1"] = 1

\* C17 (as claimed): the store starts with a row for "b" and the control plane
\* issues commands for "a" only; the supervisor takes a command for "a" out of the
\* mailbox only when the worker of the persisted row has been created.
C17_RestoreBeforeCommands ==
    [][(mailbox # <<>> /\ mailbox' = Tail(mailbox) /\ Head(mailbox).cfg.id = "a") =>
          \E w \in Workers : workers[w].pc # "unused" /\ workers[w].cfg.id = "b"]_vars

\* C18: when spawn_listener returns for an Add whose id is in the map, the map,
\* every worker (its config, its token, its task) and the number of workers
\* created are what they were.
C18_DuplicateAddChangesNothing ==
    [][(sup_pc = "spawn" /\ sup_pc' # "spawn" /\ listeners[sup_cfg[1].raw.id] # 0) =>
          /\ listeners' = listeners
          /\ workers' = workers
          /\ nworkers' = nworkers]_vars

\* C18 witness: spawn_listener is about to handle an Add for a live id whose
\* config differs from the one the live worker was added with, and it validates.
C18_Witness ==
    /\ sup_pc = "spawn"
    /\ listeners[sup_cfg[1].raw.id] # 0
    /\ workers[listeners[sup_cfg[1].raw.id]].raw # sup_cfg[1].raw
    /\ validate(sup_cfg[1].cfg)

\* C19: an update_listener(c) that finds no worker under c.id in the map leaves
\* the listeners table, the workers, the map, the mailbox, the global config and
\* the calls in progress as they were.
C19_UpdateOfAbsentChangesNothing ==
    [][\A c \in UpdateInputs :
          (update_listener(c) /\ listeners[c.id] = 0) =>
              UNCHANGED <<db_listeners, workers, listeners, mailbox, cfg_tx, calls>>]_vars

\* C19 witness: no listener was ever added, the supervisor is idle, and
\* update_listener has been called (nothing else counts as a call here).
C19_Witness ==
    /\ ncalls >= 1 /\ nworkers = 0 /\ sup_pc = "loop"
    /\ db_listeners["a"] = None /\ calls = {} /\ mailbox = <<>>

\* C20 (as claimed): update_global_config(g) leaves g as the value of the watch
\* channel, the value spawn_listener merges the next Add with.
C20_GlobalConfigIsSet ==
    [][\A g \in GlobalInputs : update_global_config(g) => cfg_tx' = g]_vars

\* C21 (as claimed): when spawn_listener handles an Add with a valid config that
\* needs no proxy, for an id whose worker's run has returned an error, the id has
\* a running worker afterwards.
C21_ReAddAfterFailure ==
    [][(/\ sup_pc = "spawn" /\ sup_pc' # "spawn"
        /\ validate(sup_cfg[1].cfg)
        /\ sup_cfg[1].cfg.proxy_list_url = None
        /\ \E w \in Workers :
              workers[w].pc = "failed" /\ workers[w].cfg.id = sup_cfg[1].cfg.id)
          => /\ listeners'[sup_cfg[1].cfg.id] # 0
             /\ workers'[listeners'[sup_cfg[1].cfg.id]].pc \in Running]_vars

\* C22: a step that changes the live-worker map is a step of the supervisor loop
\* (a received command, spawn_listener, or stop_all on shutdown) and is no step
\* of a control-plane call; every step of add_listener, remove_listener,
\* update_listener, update_global_config, get_listener and get_all_listeners
\* leaves the map as it was.
C22_OnlySupervisorChangesMap ==
    /\ [][listeners' # listeners =>
            /\ run_recv \/ (\E ok \in BOOLEAN : spawn_listener(ok)) \/ run_shutdown
            /\ UNCHANGED <<ncalls, calls>>]_vars
    /\ [][ControlPlaneFrame => listeners' = listeners]_vars

\* C22 witness: "a" was restored and then removed, "b" was added, and both calls
\* are over: the supervisor has changed the map three times.
C22_Witness ==
    /\ ncalls = 2 /\ calls = {} /\ mailbox = <<>> /\ sup_pc = "loop"
    /\ listeners["a"] = 0 /\ listeners["b"] # 0
    /\ \E w \in Workers : workers[w].cfg.id = "a" /\ workers[w].token

\* the two defects C23 names
C23_FailsValidation(c) ==
    \/ ~starts_with(c.channel_url, TmePrefix)
    \/ (c.poll_interval # None /\ c.poll_interval[1] < MinRejected + 1)

\* C23 (as claimed): add_listener with a config that has a channel_url without
\* the prefix or a poll_interval below 3 writes no listener row and leaves no
\* send of an Add behind, and no Add with such a config is ever enqueued.
C23_InvalidAddNotPersisted ==
    [][/\ \A c \in AddInputs :
            (add_listener(c) /\ C23_FailsValidation(c)) =>
                db_listeners' = db_listeners /\ calls' = calls
       /\ \A k \in calls :
            add_send(k) => ~C23_FailsValidation(k.cfg)]_vars

\* the row mirrors the config on the four fields the listeners table shares with it
RowMirrors(row, c) ==
    /\ Some(row.poll_interval) = c.poll_interval
    /\ row.channel_url = c.channel_url
    /\ row.proxy_list_url = c.proxy_list_url
    /\ Some(row.webhook_url) = c.webhook_url

\* C24 (as claimed): with no call in progress, an empty mailbox and the
\* supervisor in its loop, the row of every id that has a worker in the map
\* mirrors that worker's effective config.
C24_RowMirrorsEffectiveConfig ==
    (calls = {} /\ mailbox = <<>> /\ sup_pc = "loop") =>
        \A i \in Ids :
            (listeners[i] # 0 /\ db_listeners[i] # None) =>
                RowMirrors(db_listeners[i][1], workers[listeners[i]].cfg)

\* worker r runs with the fields its last add or update gave
UsesGivenConfig(r) ==
    /\ r.url = r.raw.channel_url
    /\ r.raw.poll_interval # None => r.cfg.poll_interval = r.raw.poll_interval
    /\ ~IsUnset(r.raw.webhook_url) => r.cfg.webhook_url = r.raw.webhook_url

\* C25 (as claimed): the reconfigure of update_listener(cfg) sets the worker's
\* config to merge(cfg, global) in one step and leaves the mailbox alone, and
\* every loop iteration the worker starts afterwards (after a sleep or after
\* handling a global change) runs with cfg's channel_url, poll_interval and
\* webhook_url.
C25_UpdateTakesEffect ==
    /\ [][\A k \in calls :
            update_reconfigure(k) =>
                mailbox' = mailbox /\ workers'[k.w].cfg = merge_with(k.cfg, k.g)]_vars
    /\ [][\A w \in Workers :
            (workers[w].pc \in {"sleep", "reconf"} /\ workers'[w].pc = "fetch")
                => UsesGivenConfig(workers'[w])]_vars

\* C26: while a worker is in send_webhook_retry, at any attempt, every post of
\* its batch has a row in the store.
C26_PersistBeforeDeliver ==
    \A w \in Workers :
        workers[w].pc = "send" =>
            \A n \in 1..Len(workers[w].new_posts) : db_posts[workers[w].new_posts[n]] # None

\* C26 witness: the second attempt for the batch <<p1, p2>> is under way.
C26_Witness ==
    \E w \in Workers :
        /\ workers[w].pc = "send" /\ workers[w].att = 2
        /\ workers[w].new_posts = <<"p1", "p2">>

\* C27: once the loop of Server::run has been left on shutdown, the map holds no
\* id and every worker that was ever put into the map has a fired token.
C27_ShutdownDrainsMap ==
    sup_pc \in {"stopped", "exited"} =>
        /\ \A i \in Ids : listeners[i] = 0
        /\ \A w \in Workers : workers[w].pc # "unused" => workers[w].token

\* C27 witness: the loop was left with the workers of "a" and "b" both in the
\* map (no remove_listener was called: the row of "a" is there and no Remove is
\* in flight), and one of them was still polling.
C27_Witness ==
    /\ sup_pc = "stopped"
    /\ db_listeners["a"] # None
    /\ \A n \in 1..Len(mailbox) : mailbox[n].type # "Remove"
    /\ \A k \in calls : k.op # "remove_delete"
    /\ \E w, v \in Workers :
          /\ workers[w].pc \in Awaiting /\ workers[w].cfg.id = "a"
          /\ workers[v].pc # "unused" /\ workers[v].cfg.id = "b"

\* post p is in the batch worker w is collecting or sending
InBatch(w, p) == \E n \in 1..Len(workers[w].new_posts) : workers[w].new_posts[n] = p

\* C28 (as claimed): as long as no worker has been cancelled and no poll has
\* failed, every post the store holds has been handed to send_webhook_retry or
\* is in the batch of a cycle that is still running.
C28_NoLostNotification ==
    (\A w \in Workers : ~workers[w].token /\ workers[w].pc # "failed") =>
        \A p \in PostIds :
            db_posts[p] # None => (sent[p] >= 1 \/ \E w \in Workers : InBatch(w, p))

\* C29 (as claimed): Server::run gets through the restore phase and reaches its
\* command loop, whatever the control plane has put into the mailbox meanwhile.
C29_RestoreCompletes == <>(sup_pc = "loop")

\* C30 (as claimed): the worker of every id in the map is in a run that has not
\* returned.
C30_MapHoldsRunningWorkers ==
    \A i \in Ids : listeners[i] # 0 => workers[listeners[i]].pc \in Running

\* worker w was removed and a replacement for its id has been spawned
Replaced(w) ==
    /\ workers[w].token /\ workers[w].pc \in Awaiting
    /\ \E v \in Workers \ {w} :
          /\ workers[v].cfg.id = workers[w].cfg.id
          /\ workers[v].pc \in Running /\ ~workers[v].token

\* C31 (as claimed): once the replacement of a removed worker has been spawned,
\* the only step the removed worker takes is to leave its loop: it writes no
\* post to the store and hands no batch to send_webhook_retry.
C31_RemovedWorkerIsSilent ==
    [][\A w \in Workers :
          (Replaced(w) /\ workers'[w] # workers[w]) =>
              /\ workers'[w].pc \notin Awaiting
              /\ db_posts' = db_posts
              /\ sent' = sent]_vars

\* the effective configs the worker of SpecSecret runs with: the restored one
\* and the updated one
DeliveryConfigs ==
    {merge_with(ConfigFromRow(RowFromConfig(CfgOk("a"))), G1), merge_with(CfgOther("a"), G1)}

\* worker w starts a webhook attempt in this step: the first of a batch or a retry
AttemptStarts(w) ==
    /\ workers'[w].pc = "send"
    /\ workers[w].pc # "send" \/ workers'[w].att = workers[w].att + 1

\* C32 (as claimed): the URL an attempt is sent to and the secret it carries are
\* the webhook_url and webhook_secret of one effective config of the worker.
C32_SecretMatchesUrl ==
    [][\A w \in Workers :
          AttemptStarts(w) =>
              \E c \in DeliveryConfigs :
                  /\ c.webhook_url = Some(workers'[w].hook)
                  /\ c.webhook_secret = AttemptSecret(workers'[w])]_vars

\* C33 (as claimed): once the shutdown token is cancelled no command is taken
\* out of the mailbox and no worker is created.
C33_NoCommandAfterStop ==
    [][shutdown =>
          /\ ~(mailbox # <<>> /\ mailbox' = Tail(mailbox))
          /\ nworkers' = nworkers]_vars

\* C34 (as claimed): two workers created for one id, the one of the first run
\* and the one restored after the restart, have the same effective config.
C34_RestartPreservesConfig ==
    \A w, v \in Workers :
        (/\ workers[w].pc # "unused" /\ workers[v].pc # "unused"
         /\ workers[w].cfg.id = workers[v].cfg.id)
            => workers[w].cfg = workers[v].cfg

====
